---- MODULE Spec2Model ----
(***************************************************************************)
(* Model of electrum/lnutil.py: the shachain RevocationStore, the          *)
(* commitment-transaction builder and the second-stage HTLC builder.       *)
(*                                                                         *)
(* Widths are scaled so that the state space is finite: the 48-bit         *)
(* commitment index is Bits wide, the 64-bit prefix mask is MaskBits wide  *)
(* and each 24-bit half of the obscured commitment number is HalfBits      *)
(* wide.  SHA-256 is modelled as a collision-free constructor: a secret is *)
(* a non-empty sequence <<m0, ..., mk>> of naturals that stands for        *)
(* sha256(... sha256(m0) xor m1 ...) xor mk, every m being a little-endian *)
(* integer, so two secrets are equal bytes exactly when the sequences are  *)
(* equal.                                                                  *)
(***************************************************************************)
EXTENDS Integers, Sequences, FiniteSets, TLC

\* Width of a commitment index (48 in the source).
Bits == 3

\* Width of the prefix mask of shachain_derive (64 in the source).
MaskBits == Bits + 1

RECURSIVE Pow2(_)
Pow2(n) == IF n <= 0 THEN 1 ELSE 2 * Pow2(n - 1)

\* index & (1 << pos) != 0, on two's-complement integers of any sign.
BitSet(n, pos) == ((n \div Pow2(pos)) % 2) = 1

\* n ^ (1 << pos) for n >= 0.
FlipBit(n, pos) == IF BitSet(n, pos) THEN n - Pow2(pos) ELSE n + Pow2(pos)

\* sha256 of a secret: a fresh value determined by its pre-image.
sha256(s) == Append(s, 0)

\* per_commitment_secret[bitindex // 8] ^= 1 << (bitindex % 8)
FlipSecretBit(s, bitindex) ==
    [s EXCEPT ![Len(s)] = FlipBit(s[Len(s)], bitindex)]

\* Mutant: the first index is an even one.
START_INDEX_even == Pow2(Bits) - 2

\* RevocationStore.START_INDEX (2 ** 48 - 1 in the source).
START_INDEX == Pow2(Bits) - 1

\* Python's None in a bucket.
None == [secret |-> <<>>, index |-> -1]

ShachainElement(secret, index) == [secret |-> secret, index |-> index]

RECURSIVE TrailingZeros(_)
TrailingZeros(n) == IF n % 2 = 1 THEN 0 ELSE 1 + TrailingZeros(n \div 2)

\* Mutant: the binary digits are not reversed, so the first "1" is at 0.
count_trailing_zeros_unreversed(index) ==
    IF index = 0 THEN Bits ELSE 0

\* list(reversed(bin(index)[2:])).index("1"), or 48 when there is no "1".
count_trailing_zeros(index) ==
    IF index = 0 THEN Bits
    ELSE TrailingZeros(IF index < 0 THEN -index ELSE index)

\* index & ((1 << 64) - 1 - ((1 << pos) - 1)): the bits pos..63 of index.
get_prefix(index, pos) == (index % Pow2(MaskBits)) - (index % Pow2(pos))

RECURSIVE SecretLoop(_, _, _)
\* The loop of get_per_commitment_secret_from_seed, bitindex going down to 0.
SecretLoop(s, i, bitindex) ==
    IF bitindex < 0 THEN s
    ELSE IF BitSet(i, bitindex)
         THEN SecretLoop(sha256(FlipSecretBit(s, bitindex)), i, bitindex - 1)
         ELSE SecretLoop(s, i, bitindex - 1)

get_per_commitment_secret_from_seed(seed, i, bits) == SecretLoop(seed, i, bits - 1)

\* Mutant: the bits argument is left to its default of 48.
shachain_derive_default_bits(element, to_index) ==
    LET from_index == element.index
        zeros == count_trailing_zeros(from_index)
    IN  IF from_index # get_prefix(to_index, zeros)
        THEN [ok |-> FALSE, e |-> None]
        ELSE [ok |-> TRUE,
              e |-> ShachainElement(
                  get_per_commitment_secret_from_seed(element.secret, to_index, Bits),
                  to_index)]

\* Result of shachain_derive: ok = FALSE stands for UnableToDeriveSecret.
shachain_derive(element, to_index) ==
    LET from_index == element.index
        zeros == count_trailing_zeros(from_index)
    IN  IF from_index # get_prefix(to_index, zeros)
        THEN [ok |-> FALSE, e |-> None]
        ELSE [ok |-> TRUE,
              e |-> ShachainElement(
                  get_per_commitment_secret_from_seed(element.secret, to_index, zeros),
                  to_index)]

BucketIds == 0 .. Bits

RECURSIVE CrossCheck(_, _, _, _)
\* The for-loop of add_next_entry from bucket i on: "ok", or the first failure
\* with the bucket it happened at.
CrossCheck(bs, new_element, i, bucket) ==
    IF i >= bucket THEN [err |-> "ok", at |-> -1]
    ELSE LET this_bucket == bs[i]
         IN  IF this_bucket = None
             THEN [err |-> "AttributeError", at |-> i]
             ELSE LET d == shachain_derive(new_element, this_bucket.index)
                  IN  IF ~d.ok THEN [err |-> "UnableToDeriveSecret", at |-> i]
                      ELSE IF d.e # this_bucket
                           THEN [err |-> "hash is not derivable", at |-> i]
                           ELSE CrossCheck(bs, new_element, i + 1, bucket)

\* Mutant: the new element is stored without the cross-check.
add_next_entry_unchecked(bs, idx, hsh) ==
    LET bucket == count_trailing_zeros(idx)
    IN  [buckets |-> [bs EXCEPT ![bucket] = ShachainElement(hsh, idx)],
         index |-> idx - 1, err |-> "ok", at |-> bucket]

\* Mutant: the index is decremented before the cross-check raises.
add_next_entry_counts_first(bs, idx, hsh) ==
    LET new_element == ShachainElement(hsh, idx)
        bucket == count_trailing_zeros(idx)
        chk == CrossCheck(bs, new_element, 0, bucket)
    IN  IF chk.err # "ok"
        THEN [buckets |-> bs, index |-> idx - 1, err |-> chk.err, at |-> chk.at]
        ELSE [buckets |-> [bs EXCEPT ![bucket] = new_element],
              index |-> idx - 1, err |-> "ok", at |-> bucket]

\* Mutant: the new element is checked against the lowest bucket only.
add_next_entry_checks_lowest(bs, idx, hsh) ==
    LET new_element == ShachainElement(hsh, idx)
        bucket == count_trailing_zeros(idx)
        chk == CrossCheck(bs, new_element, 0, IF bucket > 1 THEN 1 ELSE bucket)
    IN  IF chk.err # "ok"
        THEN [buckets |-> bs, index |-> idx, err |-> chk.err, at |-> chk.at]
        ELSE [buckets |-> [bs EXCEPT ![bucket] = new_element],
              index |-> idx - 1, err |-> "ok", at |-> bucket]

\* RevocationStore.add_next_entry on the store (bs, idx).
add_next_entry(bs, idx, hsh) ==
    LET new_element == ShachainElement(hsh, idx)
        bucket == count_trailing_zeros(idx)
        chk == CrossCheck(bs, new_element, 0, bucket)
    IN  IF chk.err # "ok"
        THEN [buckets |-> bs, index |-> idx, err |-> chk.err, at |-> chk.at]
        ELSE [buckets |-> [bs EXCEPT ![bucket] = new_element],
              index |-> idx - 1, err |-> "ok", at |-> bucket]

RECURSIVE RetrieveLoop(_, _, _)
\* The for-loop of retrieve_secret from bucket k on.
RetrieveLoop(bs, index, k) ==
    IF k > Bits THEN [ok |-> FALSE, secret |-> <<>>]
    ELSE IF bs[k] = None THEN [ok |-> FALSE, secret |-> <<>>]
    ELSE LET d == shachain_derive(bs[k], index)
         IN  IF d.ok THEN [ok |-> TRUE, secret |-> d.e.secret]
             ELSE RetrieveLoop(bs, index, k + 1)

\* RevocationStore.retrieve_secret: ok = FALSE stands for UnableToDeriveSecret.
retrieve_secret(bs, index) == RetrieveLoop(bs, index, 0)

\* The store (buckets, index), the counterparty's seed, the secrets accepted
\* so far, and the last call on the store (op, arg, ret); for the transaction
\* builders, the arguments of the call (fin), its result (fout) and how far
\* the call sequence has got (pc); a retrieve_secret that runs beside the
\* writer keeps its argument in fin, its loop position and result in fout.
VARIABLES buckets, index, seed, offered, op, arg, ret, fin, fout, pc

storeVars == <<buckets, index, seed, offered, op, arg, ret>>
callVars == <<fin, fout, pc>>
vars == <<buckets, index, seed, offered, op, arg, ret, fin, fout, pc>>

\* No call of a transaction builder is in progress.
NoCall == [none |-> TRUE]

\* The 32-byte seeds of the counterparty, as little-endian integers.
Seeds == { <<0>>, <<1>> }

\* The secret the seed s yields for index i.
FromSeed(s, i) == get_per_commitment_secret_from_seed(s, i, Bits)

\* "flip one bit": a bit above the index bits of the secret.
Tamper(s) == FlipSecretBit(s, Bits)

\* What a counterparty may send for index i: the secret of any seed, or one
\* of them with a bit flipped.
Offers(i) == { FromSeed(s, i) : s \in Seeds } \cup { Tamper(FromSeed(seed, i)) }

\* The indices retrieve_secret is asked for: the unsigned 64-bit range.
Queries == 0 .. Pow2(MaskBits) - 1

NoRet == [ok |-> FALSE, secret |-> <<>>, err |-> "none", at |-> -1]

\* RevocationStore.__init__, with the seed of the remote party chosen.
InitStore ==
    /\ buckets = [b \in BucketIds |-> None]
    /\ index = START_INDEX
    /\ seed \in Seeds
    /\ offered = [i \in {} |-> <<>>]
    /\ op = "init"
    /\ arg = <<>>
    /\ ret = NoRet
    /\ fin = NoCall
    /\ fout = NoCall
    /\ pc = "store"

\* A call add_next_entry(hsh); offered records the secrets accepted so far.
AddNextEntry ==
    /\ index >= 0
    /\ \E hsh \in Offers(index) :
        LET r == add_next_entry(buckets, index, hsh)
        IN  /\ buckets' = r.buckets
            /\ index' = r.index
            /\ offered' = IF r.err = "ok"
                          THEN [i \in DOMAIN offered \cup {index} |->
                                   IF i = index THEN hsh ELSE offered[i]]
                          ELSE offered
            /\ op' = "add"
            /\ arg' = hsh
            /\ ret' = [ok |-> r.err = "ok", secret |-> <<>>, err |-> r.err, at |-> r.at]
    /\ UNCHANGED <<seed, callVars>>

\* A call retrieve_secret(i).
RetrieveSecret ==
    /\ \E i \in Queries :
        LET r == retrieve_secret(buckets, i)
        IN  /\ op' = "retrieve"
            /\ arg' = <<i>>
            /\ ret' = [ok |-> r.ok, secret |-> r.secret,
                       err |-> IF r.ok THEN "ok" ELSE "UnableToDeriveSecret",
                       at |-> -1]
    /\ UNCHANGED <<buckets, index, seed, offered, callVars>>

NextStore == AddNextEntry \/ RetrieveSecret

Spec == InitStore /\ [][NextStore]_vars

----------------------------------------------------------------------------
(* Properties of the revocation store. *)

\* The buckets that hold an element.
Occupied == { b \in BucketIds : buckets[b] # None }

\* Number of successful insertions so far.
Inserted == START_INDEX - index

\* Every accepted secret was the one the seed yields for its index.
SeedDerived == \A i \in DOMAIN offered : offered[i] = FromSeed(seed, i)

\* C1: after N seed-derived insertions descending from START_INDEX,
\* retrieve_secret(i) returns the seed's secret for every i in the window
\* [START_INDEX - N + 1, START_INDEX] and raises UnableToDeriveSecret for
\* every other i of the unsigned 64-bit range.
C1_RetrieveWindow ==
    (op = "retrieve" /\ SeedDerived) =>
        LET i == arg[1]
        IN  IF i \in (index + 1) .. START_INDEX
            THEN ret.ok /\ ret.secret = FromSeed(seed, i)
            ELSE ~ret.ok /\ ret.err = "UnableToDeriveSecret"

\* A retrieval, after at least three seed-derived insertions, of an index no
\* bucket holds, so that the secret is derived and not just read.
C1_Witness ==
    /\ op = "retrieve" /\ SeedDerived /\ Inserted >= 3
    /\ ret.ok
    /\ \A b \in BucketIds : buckets[b].index # arg[1]

\* C2 as stated: every pair of occupied buckets i < j is derivable, bucket j
\* reproducing bucket i's secret.
C2_EveryPairDerives ==
    \A i \in Occupied : \A j \in Occupied :
        i < j => LET d == shachain_derive(buckets[j], buckets[i].index)
                 IN  d.ok /\ d.e = buckets[i]

\* C2 amended: for occupied buckets i < j the derivation from bucket j to
\* bucket i's index raises UnableToDeriveSecret exactly when bucket i was
\* overwritten after bucket j was written (its index is the smaller one), and
\* otherwise it reproduces bucket i's stored secret.
C2_DerivablePairsAgree ==
    \A i \in Occupied : \A j \in Occupied :
        i < j => LET d == shachain_derive(buckets[j], buckets[i].index)
                 IN  /\ d.ok <=> buckets[i].index > buckets[j].index
                     /\ d.ok => d.e = buckets[i]

\* A store with a pair that derives and a pair that does not.
C2_Witness ==
    /\ \E i \in Occupied : \E j \in Occupied :
          i < j /\ shachain_derive(buckets[j], buckets[i].index).ok
    /\ \E i \in Occupied : \E j \in Occupied :
          i < j /\ ~shachain_derive(buckets[j], buckets[i].index).ok

\* The secret hsh offered for idx disagrees with a lower bucket of bs.
Mismatch(bs, idx, hsh) ==
    \E i \in 0 .. count_trailing_zeros(idx) - 1 :
        /\ bs[i] # None
        /\ shachain_derive(ShachainElement(hsh, idx), bs[i].index).e # bs[i]

\* C3: an add_next_entry whose secret disagrees with a lower bucket fails and
\* leaves buckets and index as they were; after the correct secret for
\* START_INDEX, any other secret for START_INDEX - 1 fails at bucket 0.
C3_MismatchRejected ==
    [][ /\ (op' = "add" /\ Mismatch(buckets, index, arg')) =>
            /\ ret'.err = "hash is not derivable"
            /\ buckets' = buckets
            /\ index' = index
        /\ ( /\ op' = "add"
             /\ index = START_INDEX - 1
             /\ buckets[0] = ShachainElement(FromSeed(seed, START_INDEX), START_INDEX)
             /\ arg' # FromSeed(seed, START_INDEX - 1) ) =>
            /\ ret'.err = "hash is not derivable"
            /\ ret'.at = 0
            /\ buckets' = buckets
            /\ index' = index
      ]_vars

\* The tampered secret for START_INDEX - 1 was refused at bucket 0.
C3_Witness ==
    /\ op = "add" /\ ret.err = "hash is not derivable" /\ ret.at = 0
    /\ index = START_INDEX - 1
    /\ buckets[0] = ShachainElement(FromSeed(seed, START_INDEX), START_INDEX)
    /\ arg = Tamper(FromSeed(seed, START_INDEX - 1))

\* C4 as stated: bucket 48 after one insertion, buckets 0 and 48 after two,
\* buckets 0, 1 and 48 after three.
C4_LayoutAsStated ==
    /\ Inserted = 1 => Occupied = {Bits}
    /\ Inserted = 2 => Occupied = {0, Bits}
    /\ Inserted = 3 => Occupied = {0, 1, Bits}

\* C4 amended: bucket 0 after one insertion, buckets 0 and 1 after two and
\* after three; the top bucket is occupied only once index 0 was inserted.
C4_Layout ==
    /\ Inserted = 1 => Occupied = {0}
    /\ Inserted = 2 => Occupied = {0, 1}
    /\ Inserted = 3 => Occupied = {0, 1}
    /\ Bits \in Occupied <=> index < 0

\* Three insertions were made.
C4_Witness == Inserted = 3 /\ op = "add" /\ ret.ok

----------------------------------------------------------------------------
(* The commitment-transaction builder.  Keys are named by strings, funding *)
(* keys by numbers (they are sorted), scripts by the fields they are built *)
(* from, addresses by the script or key they commit to.                    *)

\* Width of each half of the obscured commitment number (24 in the source).
HalfBits == 2
\* Longest htlcs list given to make_commitment.
MaxHtlcs == 2

RECURSIVE BitXor(_, _)
\* a ^ b for a, b >= 0.
BitXor(a, b) ==
    IF a = 0 THEN b
    ELSE IF b = 0 THEN a
    ELSE ((a + b) % 2) + 2 * BitXor(a \div 2, b \div 2)

\* A witness script or a public key, by what it is assembled from.
Script(kind, a, b, c, payment_hash, n) ==
    [kind |-> kind, a |-> a, b |-> b, c |-> c, payment_hash |-> payment_hash, n |-> n]

\* bitcoin.redeem_script_to_address('p2wsh', script)
p2wsh(script) == [type |-> "p2wsh", of |-> script]

\* bitcoin.pubkey_to_address('p2wpkh', pubkey)
p2wpkh(pubkey) == [type |-> "p2wpkh", of |-> Script("pubkey", pubkey, "", "", 0, 0)]

TxOutput(type, address, value) == [type |-> type, address |-> address, value |-> value]

make_offered_htlc(revocation_pubkey, remote_htlcpubkey, local_htlcpubkey, payment_hash) ==
    Script("offered", revocation_pubkey, remote_htlcpubkey, local_htlcpubkey, payment_hash, 0)

make_received_htlc(revocation_pubkey, remote_htlcpubkey, local_htlcpubkey, payment_hash, cltv_expiry) ==
    Script("received", revocation_pubkey, remote_htlcpubkey, local_htlcpubkey, payment_hash,
           cltv_expiry)

make_commitment_output_to_local_witness_script(revocation_pubkey, to_self_delay, delayed_pubkey) ==
    Script("to_local", revocation_pubkey, delayed_pubkey, "", 0, to_self_delay)

make_commitment_output_to_local_address(revocation_pubkey, to_self_delay, delayed_pubkey) ==
    p2wsh(make_commitment_output_to_local_witness_script(revocation_pubkey, to_self_delay,
                                                         delayed_pubkey))

make_commitment_output_to_remote_address(remote_payment_pubkey) == p2wpkh(remote_payment_pubkey)

ScriptHtlc(redeem_script, htlc) == [redeem_script |-> redeem_script, htlc |-> htlc]

\* int.from_bytes(sha256(funder + fundee)[-6:], 'big'): the digest's last six
\* bytes, a value of two halves that depends on both keys and on their order.
sha256_tail(funder, fundee) == (11 * funder + 5 * fundee + 3) % Pow2(2 * HalfBits)

get_obscured_ctn(ctn, funder, fundee) == BitXor(ctn, sha256_tail(funder, fundee))

make_funding_input(local_funding_pubkey, remote_funding_pubkey, payment_basepoint, remote_payment_basepoint, funding_pos, funding_txid, funding_sat) ==
    [c_input |-> [type |-> "p2wsh",
                  x_pubkeys |-> IF local_funding_pubkey <= remote_funding_pubkey
                                THEN <<local_funding_pubkey, remote_funding_pubkey>>
                                ELSE <<remote_funding_pubkey, local_funding_pubkey>>,
                  num_sig |-> 2,
                  prevout_n |-> funding_pos,
                  prevout_hash |-> funding_txid,
                  value |-> funding_sat,
                  sequence |-> -1],
     payments |-> <<payment_basepoint, remote_payment_basepoint>>]

\* The htlc outputs of make_outputs, one per entry of htlcs, in its order.
HtlcOutputs(htlcs) ==
    [k \in 1 .. Len(htlcs) |->
        TxOutput("TYPE_ADDRESS", p2wsh(htlcs[k].redeem_script),
                 htlcs[k].htlc.amount_msat \div 1000)]

\* Mutant: only the htlc outputs are trimmed.
make_outputs_trims_htlcs_only(fees_per_participant, local_amount, remote_amount, local_tupl, remote_tupl, htlcs, dust_limit_sat) ==
    LET to_local == TxOutput(local_tupl[1], local_tupl[2],
                             (local_amount - fees_per_participant.LOCAL) \div 1000)
        to_remote == TxOutput(remote_tupl[1], remote_tupl[2],
                              (remote_amount - fees_per_participant.REMOTE) \div 1000)
        htlc_outputs == HtlcOutputs(htlcs)
    IN  [htlc_outputs |-> htlc_outputs,
         c_outputs_filtered |->
             <<to_local, to_remote>>
                 \o SelectSeq(htlc_outputs, LAMBDA x : x.value >= dust_limit_sat)]

make_outputs(fees_per_participant, local_amount, remote_amount, local_tupl, remote_tupl, htlcs, dust_limit_sat) ==
    LET to_local_amt == local_amount - fees_per_participant.LOCAL
        to_local == TxOutput(local_tupl[1], local_tupl[2], to_local_amt \div 1000)
        to_remote_amt == remote_amount - fees_per_participant.REMOTE
        to_remote == TxOutput(remote_tupl[1], remote_tupl[2], to_remote_amt \div 1000)
        non_htlc_outputs == <<to_local, to_remote>>
        htlc_outputs == HtlcOutputs(htlcs)
    IN  [htlc_outputs |-> htlc_outputs,
         c_outputs_filtered |->
             SelectSeq(non_htlc_outputs \o htlc_outputs,
                       LAMBDA x : x.value >= dust_limit_sat)]

RECURSIVE SumValues(_)
\* sum(x.value for x in outputs)
SumValues(outputs) ==
    IF outputs = <<>> THEN 0 ELSE Head(outputs).value + SumValues(Tail(outputs))

\* Mutant: the assertion is stripped, as under python -O.
SumAssertStripped(outputs, funding_sat) == TRUE

\* assert sum(x.value for x in c_outputs_filtered) <= funding_sat
SumAssert(outputs, funding_sat) == SumValues(outputs) <= funding_sat

\* Transaction.from_io(inputs, outputs, locktime, version): the transaction
\* holds what it was given, the outputs in the order given.
FromIo(inputs, outputs, locktime, version) ==
    [inputs |-> inputs, outputs |-> outputs, locktime |-> locktime, version |-> version]

\* output in tx.outputs()
InOutputs(output, outputs) == \E p \in 1 .. Len(outputs) : outputs[p] = output

\* tx.outputs().index(output): the first position, counted from 0.
OutputIndex(output, outputs) ==
    (CHOOSE p \in 1 .. Len(outputs) :
        /\ outputs[p] = output
        /\ \A q \in 1 .. p - 1 : outputs[q] # output) - 1

\* Mutant: the index is the place in the untrimmed list, after the two
\* non-htlc outputs.
HtlcOutputIndexUntrimmed(k, htlc_outputs, outputs) == 2 + (k - 1)

\* tx.outputs().index(output) for the k-th htlc output.
HtlcOutputIndex(k, htlc_outputs, outputs) == OutputIndex(htlc_outputs[k], outputs)

RECURSIVE IndexLoopOverwrites(_, _, _, _, _)
\* Mutant: a payment_hash already in the mapping is overwritten.
IndexLoopOverwrites(htlcs, htlc_outputs, outputs, k, acc) ==
    IF k > Len(htlcs) THEN [err |-> "ok", indices |-> acc]
    ELSE IF InOutputs(htlc_outputs[k], outputs)
         THEN LET h == htlcs[k].htlc.payment_hash
              IN  IndexLoopOverwrites(htlcs, htlc_outputs, outputs, k + 1,
                                      [x \in DOMAIN acc \cup {h} |->
                                          IF x = h THEN HtlcOutputIndex(k, htlc_outputs, outputs)
                                          ELSE acc[x]])
         ELSE IndexLoopOverwrites(htlcs, htlc_outputs, outputs, k + 1, acc)

RECURSIVE IndexLoop(_, _, _, _, _)
\* The loop of make_commitment that fills tx.htlc_output_indices, from the
\* k-th htlc on, acc being the mapping so far.
IndexLoop(htlcs, htlc_outputs, outputs, k, acc) ==
    IF k > Len(htlcs) THEN [err |-> "ok", indices |-> acc]
    ELSE IF InOutputs(htlc_outputs[k], outputs)
         THEN LET h == htlcs[k].htlc.payment_hash
              IN  IF h \in DOMAIN acc
                  THEN [err |-> "AssertionError: payment_hash", indices |-> acc]
                  ELSE IndexLoop(htlcs, htlc_outputs, outputs, k + 1,
                                 [x \in DOMAIN acc \cup {h} |->
                                     IF x = h THEN HtlcOutputIndex(k, htlc_outputs, outputs)
                                     ELSE acc[x]])
         ELSE IndexLoop(htlcs, htlc_outputs, outputs, k + 1, acc)

NoIndices == [x \in {} |-> 0]

\* What a failed make_commitment leaves: no transaction.
NoTx == FromIo(<<>>, <<>>, -1, -1)

\* make_commitment on the record a of its arguments: err = "ok" and the
\* transaction with its htlc_output_indices, or the assertion that failed.
make_commitment(a) ==
    LET fi == make_funding_input(a.local_funding_pubkey, a.remote_funding_pubkey,
                                 a.payment_basepoint, a.remote_payment_basepoint,
                                 a.funding_pos, a.funding_txid, a.funding_sat)
        obs == get_obscured_ctn(a.ctn, fi.payments[1], fi.payments[2])
        locktime == (32 * Pow2(HalfBits)) + (obs % Pow2(HalfBits))
        sequence == (128 * Pow2(HalfBits)) + (obs \div Pow2(HalfBits))
        c_inputs == << [fi.c_input EXCEPT !.sequence = sequence] >>
        local_address == make_commitment_output_to_local_address(
                             a.revocation_pubkey, a.to_self_delay, a.delayed_pubkey)
        remote_address == make_commitment_output_to_remote_address(a.remote_payment_pubkey)
        mo == make_outputs(a.fees_per_participant, a.local_amount, a.remote_amount,
                           <<"TYPE_ADDRESS", local_address>>,
                           <<"TYPE_ADDRESS", remote_address>>, a.htlcs, a.dust_limit_sat)
        tx == FromIo(c_inputs, mo.c_outputs_filtered, locktime, 2)
        il == IndexLoop(a.htlcs, mo.htlc_outputs, tx.outputs, 1, NoIndices)
    IN  IF ~SumAssert(mo.c_outputs_filtered, a.funding_sat)
        THEN [err |-> "AssertionError: sum", tx |-> NoTx, htlc_output_indices |-> NoIndices,
              ctn |-> -1]
        ELSE IF il.err # "ok"
        THEN [err |-> il.err, tx |-> NoTx, htlc_output_indices |-> NoIndices, ctn |-> -1]
        ELSE [err |-> "ok", tx |-> tx, htlc_output_indices |-> il.indices, ctn |-> -1]

\* Mutant: the sequence is not masked to its low half.
extract_ctn_from_tx_unmasked(tx, txin_index, funder_payment_basepoint, fundee_payment_basepoint) ==
    LET locktime == tx.locktime
        sequence == tx.inputs[txin_index + 1].sequence
        obs == (sequence * Pow2(HalfBits)) + (locktime % Pow2(HalfBits))
    IN  get_obscured_ctn(obs, funder_payment_basepoint, fundee_payment_basepoint)

extract_ctn_from_tx(tx, txin_index, funder_payment_basepoint, fundee_payment_basepoint) ==
    LET locktime == tx.locktime
        sequence == tx.inputs[txin_index + 1].sequence
        obs == ((sequence % Pow2(HalfBits)) * Pow2(HalfBits)) + (locktime % Pow2(HalfBits))
    IN  get_obscured_ctn(obs, funder_payment_basepoint, fundee_payment_basepoint)

\* The store as RevocationStore.__init__ leaves it, for the specifications
\* that only call the transaction builders.
FreshStore ==
    /\ buckets = [b \in BucketIds |-> None]
    /\ index = START_INDEX
    /\ seed = <<0>>
    /\ offered = [i \in {} |-> <<>>]
    /\ op = "init"
    /\ arg = <<>>
    /\ ret = NoRet

\* The payment basepoints of the two parties.
Basepoints == 1 .. 2

\* The payment hashes of the htlcs.
Hashes == 1 .. 2

\* The in-flight htlcs: 0 sat and 2 sat once divided by 1000.
Htlcs == [amount_msat : {999, 2000}, cltv_expiry : {5}, payment_hash : Hashes]

\* Each htlc with the script its direction gives it.
ScriptHtlcs ==
    { ScriptHtlc(make_offered_htlc("revocation_pubkey", "remote_htlcpubkey",
                                   "local_htlcpubkey", h.payment_hash), h) : h \in Htlcs }
    \cup
    { ScriptHtlc(make_received_htlc("revocation_pubkey", "remote_htlcpubkey",
                                    "local_htlcpubkey", h.payment_hash, h.cltv_expiry), h) :
          h \in Htlcs }

HtlcLists == UNION { [1 .. n -> ScriptHtlcs] : n \in 0 .. MaxHtlcs }

\* The arguments of make_commitment that the properties do not depend on.
CommitmentArgs(ctn, funder, fundee, funding_sat, local_amount, remote_amount, dust_limit_sat, fees, htlcs) ==
    [ctn |-> ctn,
     local_funding_pubkey |-> 3,
     remote_funding_pubkey |-> 2,
     remote_payment_pubkey |-> "remote_payment_pubkey",
     payment_basepoint |-> funder,
     remote_payment_basepoint |-> fundee,
     revocation_pubkey |-> "revocation_pubkey",
     delayed_pubkey |-> "delayed_pubkey",
     to_self_delay |-> 144,
     funding_txid |-> "funding_txid",
     funding_pos |-> 0,
     funding_sat |-> funding_sat,
     local_amount |-> local_amount,
     remote_amount |-> remote_amount,
     dust_limit_sat |-> dust_limit_sat,
     fees_per_participant |-> fees,
     htlcs |-> htlcs]

\* Calls that vary the commitment number and the payment basepoints.
CtnCalls ==
    { CommitmentArgs(ctn, f, g, 20, 3000, 3000, 1, [LOCAL |-> 0, REMOTE |-> 0], <<>>) :
          ctn \in 0 .. Pow2(2 * HalfBits) - 1, f \in Basepoints, g \in Basepoints }

\* Calls that vary the balances, the fees, the dust limit, the funding amount
\* and the htlcs.
OutputCalls ==
    { CommitmentArgs(5, 1, 2, x[1], x[2], x[3], x[4], [LOCAL |-> x[5], REMOTE |-> x[6]], x[7]) :
          x \in {5, 20} \X {0, 3000} \X {1500, 3000} \X {1, 2, 3} \X {0, 1000}
                \X {0, 2000} \X HtlcLists }

InitCommit ==
    /\ FreshStore
    /\ fin \in CtnCalls \cup OutputCalls
    /\ fout = NoCall
    /\ pc = "start"

\* tx = make_commitment(...)
MakeCommitment ==
    /\ pc = "start"
    /\ fout' = make_commitment(fin)
    /\ pc' = "made"
    /\ UNCHANGED <<storeVars, fin>>

\* extract_ctn_from_tx(tx, 0, funder_pb, fundee_pb) on the transaction made.
ExtractCtn ==
    /\ pc = "made"
    /\ fout.err = "ok"
    /\ fout' = [fout EXCEPT !.ctn = extract_ctn_from_tx(fout.tx, 0, fin.payment_basepoint,
                                                       fin.remote_payment_basepoint)]
    /\ pc' = "extracted"
    /\ UNCHANGED <<storeVars, fin>>

NextCommit == MakeCommitment \/ ExtractCtn

SpecCommit == InitCommit /\ [][NextCommit]_vars

----------------------------------------------------------------------------
(* Properties of the commitment builder. *)

\* make_commitment returned a transaction.
Made == pc # "start" /\ fout.err = "ok"

\* The k-th htlc of the call has an output of at least the dust limit.
Survives(k) == fin.htlcs[k].htlc.amount_msat \div 1000 >= fin.dust_limit_sat

\* The output the k-th htlc of the call stands for.
OwnOutput(k) ==
    TxOutput("TYPE_ADDRESS", p2wsh(fin.htlcs[k].redeem_script),
             fin.htlcs[k].htlc.amount_msat \div 1000)

\* C5: extract_ctn_from_tx on input 0 of the transaction make_commitment
\* built for a 48-bit commitment number ctn, with the same two payment
\* basepoints, returns ctn.
C5_CtnRoundTrip == pc = "extracted" => fout.ctn = fin.ctn

\* A commitment number with both halves non-zero under a non-zero mask went
\* through locktime and sequence and came back.
C5_Witness ==
    /\ pc = "extracted"
    /\ fin.ctn \div Pow2(HalfBits) > 0
    /\ fin.ctn % Pow2(HalfBits) > 0
    /\ fin.payment_basepoint # fin.remote_payment_basepoint
    /\ sha256_tail(fin.payment_basepoint, fin.remote_payment_basepoint) \div Pow2(HalfBits) > 0
    /\ fout.tx.locktime \div Pow2(HalfBits) = 32
    /\ fout.tx.inputs[1].sequence \div Pow2(HalfBits) = 128

\* C6 as stated: htlc_output_indices has an entry for an htlc's payment_hash
\* exactly when that htlc's own output survived the dust filter; the index
\* recorded for a surviving htlc is a position of the transaction's outputs
\* that holds its own output, and distinct surviving htlcs have distinct
\* indices.
C6_EntryIffOwnOutputSurvived ==
    Made =>
        LET hs == fin.htlcs
            idx == fout.htlc_output_indices
            outs == fout.tx.outputs
        IN  /\ \A k \in 1 .. Len(hs) :
                  hs[k].htlc.payment_hash \in DOMAIN idx <=> Survives(k)
            /\ \A k \in 1 .. Len(hs) :
                  Survives(k) =>
                      /\ idx[hs[k].htlc.payment_hash] \in 0 .. Len(outs) - 1
                      /\ outs[idx[hs[k].htlc.payment_hash] + 1] = OwnOutput(k)
            /\ \A k \in 1 .. Len(hs) : \A l \in 1 .. Len(hs) :
                  (k # l /\ Survives(k) /\ Survives(l)) =>
                      idx[hs[k].htlc.payment_hash] # idx[hs[l].htlc.payment_hash]

\* C6 amended: htlc_output_indices has an entry for a payment_hash exactly
\* when some htlc carrying that hash survived the dust filter (a trimmed htlc
\* that shares its hash with a surviving one has an entry too); the index
\* recorded for a surviving htlc is a position of the transaction's outputs
\* that holds its own output, and distinct surviving htlcs have distinct
\* indices.
C6_IndicesOfSurvivors ==
    Made =>
        LET hs == fin.htlcs
            idx == fout.htlc_output_indices
            outs == fout.tx.outputs
        IN  /\ \A h \in Hashes :
                  h \in DOMAIN idx <=>
                      \E k \in 1 .. Len(hs) : hs[k].htlc.payment_hash = h /\ Survives(k)
            /\ \A k \in 1 .. Len(hs) :
                  Survives(k) =>
                      /\ idx[hs[k].htlc.payment_hash] \in 0 .. Len(outs) - 1
                      /\ outs[idx[hs[k].htlc.payment_hash] + 1] = OwnOutput(k)
            /\ \A k \in 1 .. Len(hs) : \A l \in 1 .. Len(hs) :
                  (k # l /\ Survives(k) /\ Survives(l)) =>
                      idx[hs[k].htlc.payment_hash] # idx[hs[l].htlc.payment_hash]

\* Two htlcs survived, a third of the list or a non-htlc output was trimmed.
C6_Witness ==
    /\ Made
    /\ Cardinality(DOMAIN fout.htlc_output_indices) = 2
    /\ Len(fout.tx.outputs) < 2 + Len(fin.htlcs)
    /\ \E h \in DOMAIN fout.htlc_output_indices : fout.htlc_output_indices[h] < 2

\* Two htlcs of the call carry the same payment_hash.
DuplicateHash ==
    \E k \in 1 .. Len(fin.htlcs) : \E l \in 1 .. Len(fin.htlcs) :
        k < l /\ fin.htlcs[k].htlc.payment_hash = fin.htlcs[l].htlc.payment_hash

\* Two htlcs of the call that both survive the dust filter carry the same
\* payment_hash.
SurvivingDuplicateHash ==
    \E k \in 1 .. Len(fin.htlcs) : \E l \in 1 .. Len(fin.htlcs) :
        /\ k < l /\ Survives(k) /\ Survives(l)
        /\ fin.htlcs[k].htlc.payment_hash = fin.htlcs[l].htlc.payment_hash

\* C7 as stated: make_commitment fails on every htlcs list in which two htlcs
\* carry the same payment_hash.
C7_DuplicatesRejected == (pc # "start" /\ DuplicateHash) => fout.err # "ok"

\* C7 amended: make_commitment fails on every htlcs list in which two htlcs
\* whose outputs both survive the dust filter carry the same payment_hash,
\* and the payment_hash assertion fails on no other list.
C7_SurvivingDuplicatesRejected ==
    pc # "start" =>
        /\ SurvivingDuplicateHash => fout.err # "ok"
        /\ fout.err = "AssertionError: payment_hash" => SurvivingDuplicateHash

\* The payment_hash assertion failed.
C7_Witness ==
    /\ pc = "made" /\ fout.err = "AssertionError: payment_hash"
    /\ SurvivingDuplicateHash

\* to_local, to_remote and the htlc outputs before trimming.
Untrimmed ==
    << TxOutput("TYPE_ADDRESS",
                make_commitment_output_to_local_address(fin.revocation_pubkey,
                                                        fin.to_self_delay, fin.delayed_pubkey),
                (fin.local_amount - fin.fees_per_participant.LOCAL) \div 1000),
       TxOutput("TYPE_ADDRESS",
                make_commitment_output_to_remote_address(fin.remote_payment_pubkey),
                (fin.remote_amount - fin.fees_per_participant.REMOTE) \div 1000) >>
    \o [k \in 1 .. Len(fin.htlcs) |-> OwnOutput(k)]

\* How many of the first k untrimmed outputs reach the dust limit.
Kept(k) == Cardinality({ j \in 1 .. k : Untrimmed[j].value >= fin.dust_limit_sat })

\* C8: no output of a produced commitment transaction is below
\* dust_limit_sat, and the outputs are exactly the untrimmed outputs that
\* reach it, to_local and to_remote first, the htlcs in the caller's order.
C8_NoDustOrderKept ==
    Made =>
        LET outs == fout.tx.outputs
        IN  /\ \A p \in 1 .. Len(outs) : outs[p].value >= fin.dust_limit_sat
            /\ Len(outs) = Kept(Len(Untrimmed))
            /\ \A k \in 1 .. Len(Untrimmed) :
                  Untrimmed[k].value >= fin.dust_limit_sat => outs[Kept(k)] = Untrimmed[k]

\* The local balance is smaller than the fee, an htlc was trimmed and a later
\* htlc was kept.
C8_Witness ==
    /\ Made
    /\ fin.local_amount < fin.fees_per_participant.LOCAL
    /\ Len(fin.htlcs) = 2 /\ ~Survives(1) /\ Survives(2)
    /\ Len(fout.tx.outputs) = 2

RECURSIVE TotalValue(_, _)
\* The values of the first n outputs added up.
TotalValue(outputs, n) == IF n = 0 THEN 0 ELSE outputs[n].value + TotalValue(outputs, n - 1)

\* C9: the output values of a produced commitment transaction add up to at
\* most funding_sat.
C9_SumWithinFunding ==
    Made => TotalValue(fout.tx.outputs, Len(fout.tx.outputs)) <= fin.funding_sat

\* A transaction whose outputs add up to exactly funding_sat, built from
\* untrimmed outputs that add up to more.
C9_Witness ==
    /\ Made
    /\ TotalValue(fout.tx.outputs, Len(fout.tx.outputs)) = fin.funding_sat
    /\ TotalValue(Untrimmed, Len(Untrimmed)) > fin.funding_sat

----------------------------------------------------------------------------
(* The second-stage HTLC transaction builder. *)

HTLC_TIMEOUT_WEIGHT == 663
HTLC_SUCCESS_WEIGHT == 703

\* The key derive_pubkey yields: determined by the basepoint and the point.
derive_pubkey(basepoint, per_commitment_point) ==
    "derive_pubkey(" \o basepoint \o "," \o per_commitment_point \o ")"

\* The key derive_blinded_pubkey yields.
derive_blinded_pubkey(basepoint, per_commitment_point) ==
    "derive_blinded_pubkey(" \o basepoint \o "," \o per_commitment_point \o ")"

\* Mutant: the weights of the two kinds are taken the wrong way round.
make_htlc_tx_output_swapped(amount_msat, local_feerate, revocationpubkey, local_delayedpubkey, success, to_self_delay) ==
    LET script == Script("to_local", revocationpubkey, local_delayedpubkey, "", 0, to_self_delay)
        weight == IF success THEN HTLC_TIMEOUT_WEIGHT ELSE HTLC_SUCCESS_WEIGHT
        fee == ((local_feerate * weight) \div 1000) * 1000
        final_amount_sat == (amount_msat - fee) \div 1000
    IN  IF ~(final_amount_sat > 0)
        THEN [err |-> "AssertionError: final_amount_sat",
              output |-> TxOutput("TYPE_ADDRESS", p2wsh(script), final_amount_sat)]
        ELSE [err |-> "ok",
              output |-> TxOutput("TYPE_ADDRESS", p2wsh(script), final_amount_sat)]

\* make_htlc_tx_output: the output, or the assertion on its value failing.
make_htlc_tx_output(amount_msat, local_feerate, revocationpubkey, local_delayedpubkey, success, to_self_delay) ==
    LET script == Script("to_local", revocationpubkey, local_delayedpubkey, "", 0, to_self_delay)
        p2wsh_address == p2wsh(script)
        weight == IF success THEN HTLC_SUCCESS_WEIGHT ELSE HTLC_TIMEOUT_WEIGHT
        fee == ((local_feerate * weight) \div 1000) * 1000
        final_amount_sat == (amount_msat - fee) \div 1000
    IN  IF ~(final_amount_sat > 0)
        THEN [err |-> "AssertionError: final_amount_sat",
              output |-> TxOutput("TYPE_ADDRESS", p2wsh_address, final_amount_sat)]
        ELSE [err |-> "ok",
              output |-> TxOutput("TYPE_ADDRESS", p2wsh_address, final_amount_sat)]

make_htlc_tx_inputs(htlc_output_txid, htlc_output_index, revocationpubkey, local_delayedpubkey, amount_msat, witness_script) ==
    << [type |-> "p2wsh",
        num_sig |-> 0,
        prevout_n |-> htlc_output_index,
        prevout_hash |-> htlc_output_txid,
        value |-> amount_msat \div 1000,
        sequence |-> 0,
        preimage_script |-> witness_script] >>

make_htlc_tx(cltv_timeout, inputs, output) == FromIo(inputs, <<output>>, cltv_timeout, 2)

\* make_htlc_tx_with_open_channel on the record c of its arguments.
make_htlc_tx_with_open_channel(c) ==
    LET amount_msat == c.htlc.amount_msat
        cltv_expiry == c.htlc.cltv_expiry
        payment_hash == c.htlc.payment_hash
        conf == IF c.for_us THEN c.chan.config.LOCAL ELSE c.chan.config.REMOTE
        other_conf == IF ~c.for_us THEN c.chan.config.LOCAL ELSE c.chan.config.REMOTE
        revocation_pubkey == derive_blinded_pubkey(other_conf.revocation_basepoint, c.pcp)
        delayedpubkey == derive_pubkey(conf.delayed_basepoint, c.pcp)
        other_revocation_pubkey == derive_blinded_pubkey(other_conf.revocation_basepoint, c.pcp)
        other_htlc_pubkey == derive_pubkey(other_conf.htlc_basepoint, c.pcp)
        htlc_pubkey == derive_pubkey(conf.htlc_basepoint, c.pcp)
        is_htlc_success == c.for_us = c.we_receive
        htlc_tx_output == make_htlc_tx_output(
                              amount_msat,
                              IF c.for_us THEN c.chan.pending_feerate.LOCAL
                              ELSE c.chan.pending_feerate.REMOTE,
                              revocation_pubkey, delayedpubkey, is_htlc_success,
                              other_conf.to_self_delay)
        preimage_script ==
            IF is_htlc_success
            THEN make_received_htlc(other_revocation_pubkey, other_htlc_pubkey, htlc_pubkey,
                                    payment_hash, cltv_expiry)
            ELSE make_offered_htlc(other_revocation_pubkey, other_htlc_pubkey, htlc_pubkey,
                                   payment_hash)
    IN  IF htlc_tx_output.err # "ok"
        THEN [err |-> htlc_tx_output.err, tx |-> NoTx]
        ELSE IF payment_hash \notin DOMAIN c.commit.htlc_output_indices
        THEN [err |-> "KeyError", tx |-> NoTx]
        ELSE [err |-> "ok",
              tx |-> make_htlc_tx(
                         IF is_htlc_success THEN 0 ELSE cltv_expiry,
                         make_htlc_tx_inputs(c.commit.txid,
                                             c.commit.htlc_output_indices[payment_hash],
                                             revocation_pubkey, delayedpubkey, amount_msat,
                                             preimage_script),
                         htlc_tx_output.output)]

\* The channel: the two configs and the pending feerates, which differ.
Chans ==
    { [config |-> [LOCAL |-> [revocation_basepoint |-> "local_revocation_basepoint",
                              delayed_basepoint |-> "local_delayed_basepoint",
                              htlc_basepoint |-> "local_htlc_basepoint",
                              to_self_delay |-> 144],
                   REMOTE |-> [revocation_basepoint |-> "remote_revocation_basepoint",
                               delayed_basepoint |-> "remote_delayed_basepoint",
                               htlc_basepoint |-> "remote_htlc_basepoint",
                               to_self_delay |-> 720]],
       pending_feerate |-> f] : f \in { [LOCAL |-> 3, REMOTE |-> 10],
                                        [LOCAL |-> 0, REMOTE |-> 3] } }

\* The commitment transactions spent: their txid and htlc_output_indices.
Commits ==
    { [txid |-> "commit_txid", htlc_output_indices |-> [h \in S |-> 1 + h]] :
          S \in SUBSET Hashes }

\* The calls of make_htlc_tx_with_open_channel.
HtlcTxCalls ==
    [chan : Chans, pcp : {"pcp"}, for_us : BOOLEAN, we_receive : BOOLEAN, commit : Commits,
     htlc : [amount_msat : {1000, 2500, 3000, 9000}, cltv_expiry : {5, 9},
             payment_hash : Hashes]]

InitHtlc ==
    /\ FreshStore
    /\ fin \in HtlcTxCalls
    /\ fout = NoCall
    /\ pc = "start"

\* htlc_tx = make_htlc_tx_with_open_channel(...)
MakeHtlcTx ==
    /\ pc = "start"
    /\ fout' = make_htlc_tx_with_open_channel(fin)
    /\ pc' = "made"
    /\ UNCHANGED <<storeVars, fin>>

NextHtlc == MakeHtlcTx

SpecHtlc == InitHtlc /\ [][NextHtlc]_vars

\* The feerate of the side the transaction is for.
SideFeerate == IF fin.for_us THEN fin.chan.pending_feerate.LOCAL
               ELSE fin.chan.pending_feerate.REMOTE

\* (amount_msat - floor(feerate * W / 1000) * 1000) // 1000
FinalSat(W) == (fin.htlc.amount_msat - ((SideFeerate * W) \div 1000) * 1000) \div 1000

\* C10: the transaction is an HTLC-success one exactly when
\* for_us = we_receive: then the preimage script is the received-HTLC script,
\* the fee uses weight 703 and the locktime is 0; otherwise the script is the
\* offered-HTLC one, the weight 663 and the locktime cltv_expiry.  The single
\* output carries the amount less the fee, and no transaction is built
\* unless that value is positive.
C10_SuccessOrTimeout ==
    pc = "made" =>
        LET success == fin.for_us = fin.we_receive
            value == IF success THEN FinalSat(703) ELSE FinalSat(663)
        IN  /\ ~(value > 0) => fout.err # "ok"
            /\ fout.err = "ok" =>
                  /\ Len(fout.tx.outputs) = 1
                  /\ fout.tx.outputs[1].value = value
                  /\ Len(fout.tx.inputs) = 1
                  /\ fout.tx.inputs[1].preimage_script.kind =
                         IF success THEN "received" ELSE "offered"
                  /\ fout.tx.inputs[1].preimage_script.payment_hash = fin.htlc.payment_hash
                  /\ success => fout.tx.inputs[1].preimage_script.n = fin.htlc.cltv_expiry
                  /\ fout.tx.locktime = IF success THEN 0 ELSE fin.htlc.cltv_expiry

\* An HTLC-success transaction whose value the weight 663 would change.
C10_Witness ==
    /\ pc = "made" /\ fout.err = "ok"
    /\ fin.for_us = fin.we_receive
    /\ FinalSat(703) # FinalSat(663)
    /\ fout.tx.locktime = 0

----------------------------------------------------------------------------
(* The revocation store under secrets that need not come from one seed. *)

\* C12: when every add_next_entry so far that succeeded took whatever secret
\* was offered for its index (of either seed, or a tampered one),
\* retrieve_secret(i) returns exactly the secret accepted for i, for every
\* index i inserted so far.
C12_RetrievesOffered ==
    (op = "retrieve" /\ arg[1] \in DOMAIN offered) =>
        ret.ok /\ ret.secret = offered[arg[1]]

\* A retrieval from a store that accepted secrets of both seeds: the secret
\* returned is not the one of the store's seed, and it is derived from a
\* higher bucket, no bucket holding the index asked for.
C12_Witness ==
    /\ op = "retrieve" /\ ret.ok
    /\ arg[1] \in DOMAIN offered
    /\ ret.secret = offered[arg[1]]
    /\ ret.secret # FromSeed(seed, arg[1])
    /\ \E i \in DOMAIN offered : offered[i] = FromSeed(seed, i)
    /\ \A b \in BucketIds : buckets[b].index # arg[1]

\* C13: in every state reached by add_next_entry calls made while the index
\* counter is >= 0, the occupied buckets are a prefix 0..k of the bucket
\* array (none before the first insertion), and an add_next_entry ends in success or in the secret-mismatch failure: it never
\* reads an empty bucket and its shachain_derive never raises.
C13_ContiguousBuckets ==
    /\ \E k \in -1 .. Bits : Occupied = 0 .. k
    /\ op = "add" => ret.err \in {"ok", "hash is not derivable"}

\* The last index, 0, was offered to a store whose buckets below the top one
\* are all occupied: the cross-check has read every one of them.
C13_Witness ==
    /\ op = "add" /\ ret.err = "ok" /\ ret.at = Bits
    /\ Occupied = BucketIds

----------------------------------------------------------------------------
(* retrieve_secret running while one writer calls add_next_entry: each    *)
(* iteration of the loop of retrieve_secret reads one bucket of the live  *)
(* list, and add_next_entry assigns one bucket and then the counter.      *)

\* Mutant: a bucket that cannot derive the index ends the loop.
retrieve_secret_step_stops(bs, i, k) ==
    IF k > Bits \/ bs[k] = None
    THEN [done |-> TRUE, ok |-> FALSE, secret |-> <<>>, k |-> k]
    ELSE LET d == shachain_derive(bs[k], i)
         IN  [done |-> TRUE, ok |-> d.ok, secret |-> d.e.secret, k |-> k]

\* One iteration of the for-loop of retrieve_secret at bucket k of the list
\* as it is now: the loop is over (k past the last bucket) or the bucket is
\* None, and UnableToDeriveSecret is raised; or the bucket derives the index
\* and its secret is returned; or the loop goes on to bucket k + 1.
retrieve_secret_step(bs, i, k) ==
    IF k > Bits \/ bs[k] = None
    THEN [done |-> TRUE, ok |-> FALSE, secret |-> <<>>, k |-> k]
    ELSE LET d == shachain_derive(bs[k], i)
         IN  IF d.ok
             THEN [done |-> TRUE, ok |-> TRUE, secret |-> d.e.secret, k |-> k]
             ELSE [done |-> FALSE, ok |-> FALSE, secret |-> <<>>, k |-> k + 1]

InitConc ==
    /\ buckets = [b \in BucketIds |-> None]
    /\ index = START_INDEX
    /\ seed \in Seeds
    /\ offered = [i \in {} |-> <<>>]
    /\ op = "init"
    /\ arg = <<>>
    /\ ret = NoRet
    /\ fin = NoCall
    /\ fout = NoCall
    /\ pc = "idle"

\* The writer, add_next_entry up to self.buckets[bucket] = new_element, with
\* the seed's secret for the index: the bucket is assigned, the counter not
\* yet.
WriterStore ==
    /\ op # "writing"
    /\ index >= 0
    /\ LET hsh == FromSeed(seed, index)
           r == add_next_entry(buckets, index, hsh)
       IN  /\ r.err = "ok"
           /\ buckets' = r.buckets
           /\ offered' = [i \in DOMAIN offered \cup {index} |->
                             IF i = index THEN hsh ELSE offered[i]]
           /\ op' = "writing"
           /\ arg' = hsh
           /\ ret' = [ok |-> TRUE, secret |-> <<>>, err |-> r.err, at |-> r.at]
    /\ UNCHANGED <<index, seed, callVars>>

\* The writer, self.index -= 1.
WriterCount ==
    /\ op = "writing"
    /\ index' = index - 1
    /\ op' = "add"
    /\ UNCHANGED <<buckets, seed, offered, arg, ret, callVars>>

\* The reader enters retrieve_secret(i); fin keeps the index asked for and
\* the indices whose bucket was assigned by then.
RetrieveStart ==
    /\ pc = "idle"
    /\ \E i \in Queries :
          fin' = [index |-> i, inserted |-> DOMAIN offered]
    /\ fout' = [done |-> FALSE, ok |-> FALSE, secret |-> <<>>, k |-> 0]
    /\ pc' = "reading"
    /\ UNCHANGED storeVars

\* The reader runs one iteration of the loop.
RetrieveStep ==
    /\ pc = "reading"
    /\ fout' = retrieve_secret_step(buckets, fin.index, fout.k)
    /\ pc' = IF fout'.done THEN "returned" ELSE "reading"
    /\ UNCHANGED <<storeVars, fin>>

\* The reader is back from the call.
RetrieveReturn ==
    /\ pc = "returned"
    /\ fin' = NoCall
    /\ fout' = NoCall
    /\ pc' = "idle"
    /\ UNCHANGED storeVars

NextConc ==
    \/ WriterStore
    \/ WriterCount
    \/ RetrieveStart
    \/ RetrieveStep
    \/ RetrieveReturn

SpecConc == InitConc /\ [][NextConc]_vars

\* C14: a retrieve_secret(i) interleaved with a writer's seed-derived
\* insertions returns the seed's secret for every i whose bucket had been
\* assigned when it started, the secret it returns for any i is the seed's,
\* and its steps leave buckets and the index counter as they were.
C14_ConcurrentRetrieve ==
    /\ [](pc = "returned" =>
            /\ fin.index \in fin.inserted =>
                  fout.ok /\ fout.secret = FromSeed(seed, fin.index)
            /\ fout.ok => fout.secret = FromSeed(seed, fin.index))
    /\ [][ (pc' # pc \/ fout' # fout \/ fin' # fin) =>
               (buckets' = buckets /\ index' = index) ]_vars

\* A retrieval of an index inserted before it started, which went past two
\* buckets and was answered by a bucket the writer assigned after it started.
C14_Witness ==
    /\ pc = "returned" /\ fout.ok
    /\ fin.index \in fin.inserted
    /\ fout.secret = FromSeed(seed, fin.index)
    /\ fout.k >= 2
    /\ buckets[fout.k].index \notin fin.inserted

----------------------------------------------------------------------------
(* The short channel id: calc_short_channel_id / invert_short_channel_id. *)

\* Width of a byte (8 in the source).
ByteBits == 1

\* Number of values of a byte (256 in the source).
ByteBase == Pow2(ByteBits)

RECURSIVE BasePow(_)
\* ByteBase ** n
BasePow(n) == IF n <= 0 THEN 1 ELSE ByteBase * BasePow(n - 1)

\* The k-th byte, most significant first, of the length bytes of n.
BigEndianBytes(n, length) ==
    [k \in 1 .. length |-> (n \div BasePow(length - k)) % ByteBase]

\* int.to_bytes(length, byteorder='big'), unsigned: OverflowError for a
\* negative int and for an int too big to convert.
to_bytes(n, length) ==
    IF n < 0 \/ n >= BasePow(length)
    THEN [err |-> "OverflowError", bytes |-> <<>>]
    ELSE [err |-> "ok", bytes |-> BigEndianBytes(n, length)]

RECURSIVE from_bytes(_)
\* Mutant: the bytes are read least significant first.
from_bytes_little(b) ==
    IF Len(b) = 0 THEN 0 ELSE b[1] + ByteBase * from_bytes(Tail(b))

\* int.from_bytes(b, byteorder='big')
from_bytes(b) ==
    IF Len(b) = 0 THEN 0
    ELSE b[Len(b)] + ByteBase * from_bytes(SubSeq(b, 1, Len(b) - 1))

\* b[lo:hi] of Python, with 0 <= lo <= hi.
Slice(b, lo, hi) ==
    SubSeq(b, lo + 1, IF hi > Len(b) THEN Len(b) ELSE hi)

\* calc_short_channel_id: the 8 bytes, or the error of the first field that
\* does not fit.
calc_short_channel_id(block_height, tx_pos_in_block, output_index) ==
    LET bh == to_bytes(block_height, 3)
        tpos == to_bytes(tx_pos_in_block, 3)
        oi == to_bytes(output_index, 2)
    IN  IF bh.err # "ok" THEN [err |-> bh.err, bytes |-> <<>>]
        ELSE IF tpos.err # "ok" THEN [err |-> tpos.err, bytes |-> <<>>]
        ELSE IF oi.err # "ok" THEN [err |-> oi.err, bytes |-> <<>>]
        ELSE [err |-> "ok", bytes |-> bh.bytes \o tpos.bytes \o oi.bytes]

\* invert_short_channel_id: (bh, tpos, oi).
invert_short_channel_id(short_channel_id) ==
    LET bh == from_bytes(Slice(short_channel_id, 0, 3))
        tpos == from_bytes(Slice(short_channel_id, 3, 6))
        oi == from_bytes(Slice(short_channel_id, 6, 8))
    IN  <<bh, tpos, oi>>

\* The integers offered for a field of length bytes: every value that fits,
\* and values on both sides that do not.
FieldValues(length) == -2 .. BasePow(length) + 2

\* The calls of calc_short_channel_id.
ScidCalls ==
    [block_height : FieldValues(3), tx_pos_in_block : FieldValues(3),
     output_index : FieldValues(2)]

InitScid ==
    /\ FreshStore
    /\ fin \in ScidCalls
    /\ fout = NoCall
    /\ pc = "start"

\* scid = calc_short_channel_id(b, t, o)
CalcShortChannelId ==
    /\ pc = "start"
    /\ LET r == calc_short_channel_id(fin.block_height, fin.tx_pos_in_block,
                                      fin.output_index)
       IN  fout' = [err |-> r.err, bytes |-> r.bytes, triple |-> <<>>]
    /\ pc' = "calc"
    /\ UNCHANGED <<storeVars, fin>>

\* invert_short_channel_id(scid) on the id made.
InvertShortChannelId ==
    /\ pc = "calc"
    /\ fout.err = "ok"
    /\ fout' = [fout EXCEPT !.triple = invert_short_channel_id(fout.bytes)]
    /\ pc' = "inverted"
    /\ UNCHANGED <<storeVars, fin>>

NextScid == CalcShortChannelId \/ InvertShortChannelId

SpecScid == InitScid /\ [][NextScid]_vars

\* The three arguments fit their fields of 3, 3 and 2 bytes.
FitsFields ==
    /\ fin.block_height \in 0 .. BasePow(3) - 1
    /\ fin.tx_pos_in_block \in 0 .. BasePow(3) - 1
    /\ fin.output_index \in 0 .. BasePow(2) - 1

\* C11: invert_short_channel_id(calc_short_channel_id(b, t, o)) = (b, t, o)
\* for every b and t that fit 3 bytes and o that fits 2 bytes, the id being 8
\* bytes long, and calc_short_channel_id rejects every call with a value that
\* does not fit its field.
C11_ScidRoundTrip ==
    /\ pc = "calc" =>
          /\ fout.err = "ok" <=> FitsFields
          /\ fout.err = "ok" => Len(fout.bytes) = 8
          /\ fout.err # "ok" => fout.err = "OverflowError"
    /\ pc = "inverted" =>
          fout.triple = <<fin.block_height, fin.tx_pos_in_block, fin.output_index>>

\* An id inverted whose three fields differ, two of them changing when their
\* bytes are read in the other order.
C11_Witness ==
    /\ pc = "inverted"
    /\ fout.triple = <<fin.block_height, fin.tx_pos_in_block, fin.output_index>>
    /\ fin.block_height = BasePow(3) - 1
    /\ fin.tx_pos_in_block = 1
    /\ fin.output_index = BasePow(1)

====
